---- MODULE Spec2Model ----
(***************************************************************************)
(* The Meteor connection wrappers and the two graphs of react-agent as one *)
(* state machine.                                                          *)
(*                                                                         *)
(*   variant "A"  utilities/meteor_client_connection.py                    *)
(*                MeteorClientConnection: fixed identity, ensure_connection *)
(*                and call                                                 *)
(*   variant "B"  utilities/meteor_tools.py                                *)
(*                MeteorClientConnection: identity supplied per call,      *)
(*                get_client and call_method                               *)
(*   variant "F"  meteor_tools/factory.py                                  *)
(*                create_meteor_tool.meteor_tool: one transport per tool   *)
(*                invocation                                               *)
(*   variant "C"  the construction of the wrapper of A and of the          *)
(*                Configuration of react_agent/configuration.py            *)
(*   variant "G"  react_agent/graph.py: a run of the ReAct agent graph     *)
(*   variant "R"  review_summary_agent/graph.py: a run of the graph up to  *)
(*                its samples                                              *)
(*                                                                         *)
(* The MeteorClient library is a black box: connect, login and call        *)
(* either return or raise, and the callback handed to call is fired by the *)
(* library with (error, result).                                           *)
(***************************************************************************)
EXTENDS Naturals, Sequences, FiniteSets, TLC

VARIABLES
    variant,        \* which wrapper or graph this behaviour runs
    transports,     \* every MeteorClient object created so far, by identity
    client,         \* self.client / self._client: index in transports, 0 = None
    endpoint,       \* self.url (A) / self._endpoint (B), "" = None
    is_connected,   \* self.is_connected / self._is_connected
    is_logged_in,   \* self.is_logged_in / self._is_logged_in
    invs,           \* the invocations made so far, each with what it did
    agent,          \* the run of the ReAct agent graph: State and the engine's position
    review          \* the run of the review-summary graph: OverallState and its sends

vars == <<variant, transports, client, endpoint, is_connected, is_logged_in, invs,
          agent, review>>

\* the two graphs, which the wrappers' operations leave alone
graphs == <<agent, review>>

\* Number of invocations (ensure_connection, call, tool) in one behaviour.
MaxInv == 2
\* Number of times the library fires a callback in one behaviour.
MaxCb == 2

(***************************************************************************)
(* Python values: a tag and the text of the value.                         *)
(***************************************************************************)
None == [t |-> "none", v |-> ""]
PStr(s) == [t |-> "str", v |-> s]
PInt(s) == [t |-> "int", v |-> s]
PDict(s) == [t |-> "dict", v |-> s]

\* bool(x), as `if error:` and `if username and password` evaluate it
Truthy(x) ==
    CASE x.t = "none" -> FALSE
      [] x.t = "str" -> x.v # ""
      [] x.t = "bytes" -> x.v # ""
      [] x.t = "int" -> x.v # "0"
      [] x.t = "dict" -> x.v # "{}"
      [] OTHER -> TRUE

\* str(x)
PyStr(x) ==
    CASE x.t = "none" -> "None"
      [] x.t = "bytes" -> "b'" \o x.v \o "'"
      [] OTHER -> x.v

\* repr(x)
PyRepr(x) == IF x.t = "str" THEN "'" \o x.v \o "'" ELSE PyStr(x)

\* [x]: a list of one element
PList1(x) == [t |-> "list", v |-> "[" \o PyRepr(x) \o "]"]

\* x.encode('utf-8') of a str
EncodeUtf8(x) == [t |-> "bytes", v |-> x.v]

(***************************************************************************)
(* Exceptions: the class and the single constructor argument.              *)
(***************************************************************************)
NoExc == [type |-> "none", arg |-> None]

\* str(e) of an exception built with one argument
StrExc(e) == PyStr(e.arg)

\* What connect() and login() of the transport can do: return, raise a
\* socket error, or raise an error that is no socket error.
Outcomes == {"ok", "timeout", "handshake"}

TransportExc(o) ==
    IF o = "timeout"
    THEN [type |-> "socket.timeout", arg |-> PStr("timed out")]
    ELSE [type |-> "HandshakeError", arg |-> PStr("handshake failed")]

\* isinstance(e, socket.error): the class caught by `except socket.error`
IsSocketError(e) == e.type \in {"socket.timeout", "socket.error"}

(***************************************************************************)
(* The transport objects.                                                  *)
(***************************************************************************)
NewTransport(url) ==
    [url |-> url, connected |-> FALSE, authed |-> FALSE,
     user |-> None, pwd |-> None, closed |-> FALSE]

\* One operation invoked on a transport.
Op(name, tid, ok, a1, a2) == [op |-> name, tid |-> tid, ok |-> ok, a1 |-> a1, a2 |-> a2]

\* The manager's state as one record, with the transports it acts on.
Mgr ==
    [client |-> client, endpoint |-> endpoint, is_connected |-> is_connected,
     is_logged_in |-> is_logged_in, transports |-> transports]

\* A step of ensure_connection / get_client: the state, the operations
\* invoked so far and the exception raised, if any.
Started(s) == [s |-> s, ops |-> <<>>, exc |-> NoExc]


\* The library's connect() and login() returning normally, and disconnect().
TConnect(tr) == [tr EXCEPT !.connected = TRUE]
TLogin(tr, u, p) == [tr EXCEPT !.authed = TRUE, !.user = u, !.pwd = p]
TDisconnect(tr) == [tr EXCEPT !.connected = FALSE, !.authed = FALSE, !.closed = TRUE]

(***************************************************************************)
(* Variant A: utilities/meteor_client_connection.py                        *)
(***************************************************************************)
UrlA == "ws://127.0.0.1:3000/websocket"
UsernameA == PStr("LangGraphAgent")
PasswordA == PStr("reasonablySafePassword1723")

\* Faulty variants of the guards, used to show that the properties depend on them.
NeedsConnectA_Always(s) == TRUE
NeedsLoginA_Always(s) == TRUE

NeedsNewClientA(s) == s.client = 0
NeedsConnectA(s) == ~s.is_connected
NeedsLoginA(s) == ~s.is_logged_in

CreateClientA(s) ==
    [s EXCEPT !.client = Len(s.transports) + 1,
              !.transports = Append(@, NewTransport(s.endpoint)),
              !.is_connected = FALSE,
              !.is_logged_in = FALSE]

NewClientStepA(r) ==
    IF NeedsNewClientA(r.s)
    THEN [r EXCEPT !.s = CreateClientA(r.s),
                   !.ops = Append(@, Op("new", Len(r.s.transports) + 1, TRUE,
                                        PStr(r.s.endpoint), None))]
    ELSE r

\* except socket.error as e: raise ConnectionError(...); anything else propagates
ConnectErrorA(s, e) ==
    IF IsSocketError(e)
    THEN [type |-> "ConnectionError",
          arg |-> PStr("Failed to connect to Meteor server at " \o s.endpoint
                       \o ": " \o StrExc(e))]
    ELSE e

LoginErrorA(s, e) ==
    IF IsSocketError(e)
    THEN [type |-> "ConnectionError",
          arg |-> PStr("Failed to login to Meteor server at " \o s.endpoint
                       \o ": " \o StrExc(e))]
    ELSE e

\* Faulty variant: the flag is set before connect() has returned.
ConnectStepA_MarkFirst(r, co) ==
    IF r.exc # NoExc \/ ~NeedsConnectA(r.s) THEN r
    ELSE IF co = "ok"
    THEN [r EXCEPT !.s.transports[r.s.client] = TConnect(@),
                   !.s.is_connected = TRUE,
                   !.ops = Append(@, Op("connect", r.s.client, TRUE, None, None))]
    ELSE [r EXCEPT !.s.is_connected = TRUE,
                   !.ops = Append(@, Op("connect", r.s.client, FALSE, None, None)),
                   !.exc = ConnectErrorA(r.s, TransportExc(co))]

ConnectStepA(r, co) ==
    IF r.exc # NoExc \/ ~NeedsConnectA(r.s) THEN r
    ELSE IF co = "ok"
    THEN [r EXCEPT !.s.transports[r.s.client] = TConnect(@),
                   !.s.is_connected = TRUE,
                   !.ops = Append(@, Op("connect", r.s.client, TRUE, None, None))]
    ELSE [r EXCEPT !.ops = Append(@, Op("connect", r.s.client, FALSE, None, None)),
                   !.exc = ConnectErrorA(r.s, TransportExc(co))]

LoginStepA(r, lo) ==
    IF r.exc # NoExc \/ ~NeedsLoginA(r.s) THEN r
    ELSE IF lo = "ok"
    THEN [r EXCEPT !.s.transports[r.s.client] =
                        TLogin(@, UsernameA, EncodeUtf8(PasswordA)),
                   !.s.is_logged_in = TRUE,
                   !.ops = Append(@, Op("login", r.s.client, TRUE,
                                        UsernameA, EncodeUtf8(PasswordA)))]
    ELSE [r EXCEPT !.ops = Append(@, Op("login", r.s.client, FALSE,
                                        UsernameA, EncodeUtf8(PasswordA))),
                   !.exc = LoginErrorA(r.s, TransportExc(lo))]

\* Faulty variant: login is attempted before connect.
EnsureConnectionA_LoginFirst(s, co, lo) ==
    ConnectStepA(LoginStepA(NewClientStepA(Started(s)), lo), co)

\* ensure_connection(self), with the outcomes of connect() and login()
EnsureConnectionA(s, co, lo) ==
    LoginStepA(ConnectStepA(NewClientStepA(Started(s)), co), lo)

(***************************************************************************)
(* Variant B: utilities/meteor_tools.py                                    *)
(* get_client and call_method as they act on an instance of the class,     *)
(* whose state starts from the class attributes.                           *)
(***************************************************************************)
\* Faulty variant: the endpoint of the call is not compared.
NeedsNewClientB_IgnoreEndpoint(s, url) == s.client = 0
NeedsNewClientB(s, url) == s.client = 0 \/ s.endpoint # url
NeedsConnectB(s) == ~s.is_connected
\* Faulty variant: login is attempted whether or not credentials are given.
NeedsLoginB_NoCredCheck(s, u, p) == ~s.is_logged_in
NeedsLoginB(s, u, p) == Truthy(u) /\ Truthy(p) /\ ~s.is_logged_in

\* password.encode('utf-8') if isinstance(password, str) else password
PasswordBytes(p) == IF p.t = "str" THEN EncodeUtf8(p) ELSE p

CreateClientB(s, url) ==
    [s EXCEPT !.client = Len(s.transports) + 1,
              !.transports = Append(@, NewTransport(url)),
              !.endpoint = url,
              !.is_connected = FALSE,
              !.is_logged_in = FALSE]

NewClientStepB(r, url) ==
    IF NeedsNewClientB(r.s, url)
    THEN [r EXCEPT !.s = CreateClientB(r.s, url),
                   !.ops = Append(@, Op("new", Len(r.s.transports) + 1, TRUE,
                                        PStr(url), None))]
    ELSE r

\* Faulty variant: a failure of connect() is swallowed.
ConnectStepB_Swallow(r, co) ==
    IF r.exc # NoExc \/ ~NeedsConnectB(r.s) THEN r
    ELSE IF co = "ok"
    THEN [r EXCEPT !.s.transports[r.s.client] = TConnect(@),
                   !.s.is_connected = TRUE,
                   !.ops = Append(@, Op("connect", r.s.client, TRUE, None, None))]
    ELSE [r EXCEPT !.ops = Append(@, Op("connect", r.s.client, FALSE, None, None))]

\* no try/except around connect() and login(): what they raise propagates
ConnectStepB(r, co) ==
    IF r.exc # NoExc \/ ~NeedsConnectB(r.s) THEN r
    ELSE IF co = "ok"
    THEN [r EXCEPT !.s.transports[r.s.client] = TConnect(@),
                   !.s.is_connected = TRUE,
                   !.ops = Append(@, Op("connect", r.s.client, TRUE, None, None))]
    ELSE [r EXCEPT !.ops = Append(@, Op("connect", r.s.client, FALSE, None, None)),
                   !.exc = TransportExc(co)]

\* Faulty variant: a failed login marks the manager as not connected.
LoginStepB_ResetOnFailure(r, u, p, lo) ==
    IF r.exc # NoExc \/ ~NeedsLoginB(r.s, u, p) THEN r
    ELSE IF lo = "ok"
    THEN [r EXCEPT !.s.transports[r.s.client] = TLogin(@, u, PasswordBytes(p)),
                   !.s.is_logged_in = TRUE,
                   !.ops = Append(@, Op("login", r.s.client, TRUE, u, PasswordBytes(p)))]
    ELSE [r EXCEPT !.ops = Append(@, Op("login", r.s.client, FALSE, u, PasswordBytes(p))),
                   !.s.is_connected = FALSE,
                   !.exc = TransportExc(lo)]

LoginStepB(r, u, p, lo) ==
    IF r.exc # NoExc \/ ~NeedsLoginB(r.s, u, p) THEN r
    ELSE IF lo = "ok"
    THEN [r EXCEPT !.s.transports[r.s.client] = TLogin(@, u, PasswordBytes(p)),
                   !.s.is_logged_in = TRUE,
                   !.ops = Append(@, Op("login", r.s.client, TRUE, u, PasswordBytes(p)))]
    ELSE [r EXCEPT !.ops = Append(@, Op("login", r.s.client, FALSE, u, PasswordBytes(p))),
                   !.exc = TransportExc(lo)]

\* get_client(self, meteor_url, username, password)
GetClientB(s, url, u, p, co, lo) ==
    LoginStepB(ConnectStepB(NewClientStepB(Started(s), url), co), u, p, lo)


(***************************************************************************)
(* The Call Bridge: one future per call, settled by the callback.          *)
(***************************************************************************)
NoFut == [st |-> "none", val |-> None, exc |-> NoExc]
PendingFut == [st |-> "pending", val |-> None, exc |-> NoExc]

NoOutcome == [kind |-> "none", val |-> None, exc |-> NoExc]
Returned(x) == [kind |-> "return", val |-> x, exc |-> NoExc]
Raised(e) == [kind |-> "raise", val |-> None, exc |-> e]

\* callback(error, result) of call(): what it asks the loop to do
CallbackA(error, result) ==
    IF Truthy(error)
    THEN [k |-> "set_exception", val |-> None,
          exc |-> [type |-> "Exception", arg |-> error]]
    ELSE [k |-> "set_result", val |-> result, exc |-> NoExc]

\* Faulty variant: every error that is not None fails the call.
CallbackB_NotNone(error, result) ==
    IF error # None
    THEN [k |-> "set_exception", val |-> None,
          exc |-> [type |-> "Exception", arg |-> PStr(PyStr(error))]]
    ELSE [k |-> "set_result", val |-> result, exc |-> NoExc]

\* callback(error, result) of call_method(): what it does to the future
CallbackB(error, result) ==
    IF Truthy(error)
    THEN [k |-> "set_exception", val |-> None,
          exc |-> [type |-> "Exception", arg |-> PStr(PyStr(error))]]
    ELSE [k |-> "set_result", val |-> result, exc |-> NoExc]

\* callback(error, result) of the factory's meteor_tool
CallbackF(error, result) ==
    IF Truthy(error)
    THEN [k |-> "set_exception", val |-> None,
          exc |-> [type |-> "Exception", arg |-> PStr(PyStr(error))]]
    ELSE [k |-> "set_result", val |-> result, exc |-> NoExc]

\* future.set_exception(exc) / future.set_result(value): a future that is
\* already done keeps its state and the method raises InvalidStateError
SettleRaises(fut) == fut.st # "pending"
InvalidState == [type |-> "InvalidStateError", arg |-> PStr("invalid state")]

SetFuture(fut, c) ==
    IF SettleRaises(fut) THEN fut
    ELSE IF c.k = "set_exception"
    THEN [st |-> "exception", val |-> None, exc |-> c.exc]
    ELSE [st |-> "result", val |-> c.val, exc |-> NoExc]

\* the exceptions raised so far by the settle attempts of one call
SettleErrors(errs, fut) == IF SettleRaises(fut) THEN Append(errs, InvalidState) ELSE errs

\* `return await future`
AwaitFuture(fut) == IF fut.st = "exception" THEN Raised(fut.exc) ELSE Returned(fut.val)

(***************************************************************************)
(* Invocations.  kind is "ensure" (ensure_connection / get_client called   *)
(* on its own), "call" (call / call_method) or "tool" (the factory's       *)
(* meteor_tool).                                                           *)
(***************************************************************************)
NewInv(kind, method, params, url, u, p) ==
    [kind |-> kind, method |-> method, params |-> params,
     url |-> url, user |-> u, pw |-> p, schema |-> FALSE,
     ops |-> <<>>, tid |-> 0, status |-> "done",
     cbs |-> <<>>, sched |-> <<>>, errs |-> <<>>, fut |-> NoFut, outcome |-> NoOutcome,
     env |-> {}]

\* ensure_connection / get_client invoked by the caller directly
EnsureOnly(inv, r) ==
    [inv EXCEPT !.ops = r.ops,
                !.outcome = IF r.exc # NoExc THEN Raised(r.exc) ELSE Returned(None)]

\* Faulty variants: the call is dispatched although ensure_connection /
\* get_client raised.
DispatchA_Unchecked(inv, r) ==
    [inv EXCEPT !.ops = Append(r.ops, Op("call", r.s.client, TRUE,
                                         PStr(inv.method), inv.params)),
                !.tid = r.s.client,
                !.status = "pending",
                !.fut = PendingFut]

DispatchB_Unchecked(inv, r) ==
    [inv EXCEPT !.ops = Append(r.ops, Op("call", r.s.client, TRUE,
                                         PStr(inv.method), PList1(inv.params))),
                !.tid = r.s.client,
                !.status = "pending",
                !.fut = PendingFut]

\* the rest of call(): the future is created and client.call is invoked only
\* when ensure_connection returned
DispatchA(inv, r) ==
    IF r.exc # NoExc
    THEN [inv EXCEPT !.ops = r.ops, !.outcome = Raised(r.exc)]
    ELSE [inv EXCEPT !.ops = Append(r.ops, Op("call", r.s.client, TRUE,
                                              PStr(inv.method), inv.params)),
                     !.tid = r.s.client,
                     !.status = "pending",
                     !.fut = PendingFut]

\* the rest of call_method(): client.call(method_name, [params], callback)
DispatchB(inv, r) ==
    IF r.exc # NoExc
    THEN [inv EXCEPT !.ops = r.ops, !.outcome = Raised(r.exc)]
    ELSE [inv EXCEPT !.ops = Append(r.ops, Op("call", r.s.client, TRUE,
                                              PStr(inv.method), PList1(inv.params))),
                     !.tid = r.s.client,
                     !.status = "pending",
                     !.fut = PendingFut]

\* Faulty variant: a call whose future holds a failure is sent again.
FinishCall_Retry(inv) ==
    IF inv.fut.st = "exception"
    THEN [inv EXCEPT !.ops = Append(@, Op("call", inv.tid, TRUE, PStr(inv.method),
                                          inv.params)),
                     !.fut = PendingFut]
    ELSE [inv EXCEPT !.status = "done", !.outcome = AwaitFuture(inv.fut)]

\* `return await future`: the call ends with what the future holds
FinishCall(inv) == [inv EXCEPT !.status = "done", !.outcome = AwaitFuture(inv.fut)]

(***************************************************************************)
(* Inputs.                                                                 *)
(***************************************************************************)
Methods == {"Echo"}
Payload == PDict("{'x': 1}")
Urls == {"E1", "E2"}
\* (username, password) as the configuration supplies them to B and F
Creds == {<<None, None>>, <<PStr("u"), PStr("")>>, <<PStr("u"), PStr("p")>>}
\* (username, password) given to call_method: an empty password and two users
CallCreds == {<<PStr("u"), PStr("")>>, <<PStr("u"), PStr("p")>>, <<PStr("v"), PStr("q")>>}
\* (error, result) as the library hands them to the callback
CbArgs ==
    {<<None, Payload>>, <<PStr(""), Payload>>, <<PInt("500"), None>>}

\* Number of invocations in one behaviour of a tool that shares nothing with
\* other invocations: the factory's tool creates its own transport, the tool of
\* utilities/meteor_tools.py never reaches its manager
MaxInvF == 1

\* the text handed to a tool
Queries == {"{\"x\": 1}", "not json"}

\* json.loads(query): the value, or JSONDecodeError
JsonLoads(q) ==
    IF q = "{\"x\": 1}"
    THEN [ok |-> TRUE, val |-> PDict("{'x': 1}")]
    ELSE [ok |-> FALSE, val |-> None]

\* str(e) of the JSONDecodeError that json.loads raises for q
JsonErrorText(q) == "Expecting value: line 1 column 1 (char 0)"

\* {"query": query}
WrapQuery(q) == PDict("{'query': " \o PyRepr(PStr(q)) \o "}")

\* how often the library has fired a callback, over the first n invocations
RECURSIVE FiredUpTo(_)
FiredUpTo(n) == IF n = 0 THEN 0 ELSE FiredUpTo(n - 1) + Len(invs[n].cbs)
Fired == FiredUpTo(Len(invs))

\* what the library hands to a callback it fires again: the future is done,
\* so the arguments no longer reach it
LateCbArgs == {<<PStr("late"), None>>}
\* the arguments of the next firing of the callback of a call
NextCbArgs(inv) == IF inv.cbs = <<>> THEN CbArgs ELSE LateCbArgs

\* one invocation of a callback by the library: its arguments and its place
\* in the order in which the library invoked callbacks
FiredCb(a) == [error |-> a[1], result |-> a[2], at |-> Fired + 1]

\* the place of the invocation that queued the oldest handle of a call which
\* the loop has not run yet
HeadHandleAt(inv) == inv.cbs[Len(inv.cbs) - Len(inv.sched) + 1].at

\* the loop runs the handles in the order call_soon_threadsafe queued them
NextHandle(i) ==
    /\ invs[i].sched # <<>>
    /\ \A j \in 1..Len(invs) :
          invs[j].sched # <<>> => HeadHandleAt(invs[i]) <= HeadHandleAt(invs[j])

\* the call awaits a future that is done
Settled(inv) == inv.status = "pending" /\ inv.fut.st \in {"result", "exception"}

\* Faulty variant: the awaiting calls are resumed in the order they were issued.
NextToResume_Issued(i) ==
    /\ Settled(invs[i])
    /\ \A j \in 1..Len(invs) : Settled(invs[j]) => i <= j

\* Faulty variant: the await gives up on a future that is not done.
NextToResume_GivesUp(i) == invs[i].status = "pending"

\* a future that becomes done queues the wake-up of its awaiting call with
\* loop.call_soon, so the calls resume in the order their futures were settled
NextToResume(i) ==
    /\ Settled(invs[i])
    /\ \A j \in 1..Len(invs) :
          Settled(invs[j]) => invs[i].cbs[1].at <= invs[j].cbs[1].at

SetMgr(s) ==
    /\ client' = s.client
    /\ endpoint' = s.endpoint
    /\ is_connected' = s.is_connected
    /\ is_logged_in' = s.is_logged_in
    /\ transports' = s.transports

(***************************************************************************)
(* Actions of variant A.                                                   *)
(***************************************************************************)
EnsureConnectionActA ==
    /\ variant = "A"
    /\ Len(invs) < MaxInv
    /\ \E co \in Outcomes, lo \in Outcomes :
         LET r == EnsureConnectionA(Mgr, co, lo)
             inv == NewInv("ensure", "", None, endpoint, UsernameA, PasswordA)
         IN /\ SetMgr(r.s)
            /\ invs' = Append(invs, EnsureOnly(inv, r))
    /\ UNCHANGED variant
    /\ UNCHANGED graphs

CallActA ==
    /\ variant = "A"
    /\ Len(invs) < MaxInv
    /\ \E m \in Methods, co \in Outcomes, lo \in Outcomes :
         LET r == EnsureConnectionA(Mgr, co, lo)
             inv == NewInv("call", m, PList1(Payload), endpoint, UsernameA, PasswordA)
         IN /\ SetMgr(r.s)
            /\ invs' = Append(invs, DispatchA(inv, r))
    /\ UNCHANGED variant
    /\ UNCHANGED graphs

\* except Exception as e: return f"Error calling {method_name}: {e}"
ErrorTextA(method, e) == PStr("Error calling " \o method \o ": " \o StrExc(e))

\* except json.JSONDecodeError as e: return f"Invalid JSON: {e}"
InvalidJsonTextA(q) == PStr("Invalid JSON: " \o JsonErrorText(q))

\* Faulty variant: what call() raises leaves the tool.
ToolReturnA_Propagates(inv) == inv

\* tool_function's `except Exception`: what call() raised becomes the text
\* the tool returns
ToolReturnA(inv) ==
    IF inv.outcome.kind = "raise"
    THEN [inv EXCEPT !.outcome = Returned(ErrorTextA(inv.method, inv.outcome.exc))]
    ELSE inv

\* tool_function(params_json) up to `await future`: the text is parsed
\* whatever json_schema is, and the value goes to call(method_name, [params])
ToolFunctionA(s, inv, co, lo) ==
    LET parsed == JsonLoads(inv.params.v)
        r == EnsureConnectionA(s, co, lo)
        called == DispatchA([inv EXCEPT !.params = PList1(parsed.val)], r)
    IN IF ~parsed.ok
       THEN [s |-> s,
             inv |-> [inv EXCEPT !.outcome = Returned(InvalidJsonTextA(inv.params.v))]]
       ELSE [s |-> r.s, inv |-> ToolReturnA([called EXCEPT !.params = inv.params])]

\* the end of call(), and of tool_function when the call was made by a tool
FinishA(inv) == IF inv.kind = "tool" THEN ToolReturnA(FinishCall(inv)) ELSE FinishCall(inv)

ToolFunctionActA ==
    /\ variant = "A"
    /\ Len(invs) < MaxInv
    /\ \E m \in Methods, sch \in BOOLEAN, q \in Queries, co \in Outcomes, lo \in Outcomes :
         LET inv == [NewInv("tool", m, PStr(q), endpoint, UsernameA, PasswordA)
                        EXCEPT !.schema = sch]
             r == ToolFunctionA(Mgr, inv, co, lo)
         IN /\ SetMgr(r.s)
            /\ invs' = Append(invs, r.inv)
    /\ UNCHANGED variant
    /\ UNCHANGED graphs

\* the library fires the callback: loop.call_soon_threadsafe(future.set_..., ...)
CallbackFiresA ==
    /\ variant = "A"
    /\ \E i \in 1..Len(invs) : \E a \in NextCbArgs(invs[i]) :
         /\ invs[i].tid # 0
         /\ Fired < MaxCb
         /\ invs' = [invs EXCEPT ![i].cbs = Append(@, FiredCb(a)),
                                 ![i].sched = Append(@, CallbackA(a[1], a[2]))]
    /\ UNCHANGED <<variant, transports, client, endpoint, is_connected, is_logged_in>>
    /\ UNCHANGED graphs

\* the event loop runs what call_soon_threadsafe queued
LoopRunsA ==
    /\ variant = "A"
    /\ \E i \in 1..Len(invs) :
         /\ NextHandle(i)
         /\ invs' = [invs EXCEPT ![i].fut = SetFuture(@, Head(invs[i].sched)),
                                 ![i].errs = SettleErrors(@, invs[i].fut),
                                 ![i].sched = Tail(@)]
    /\ UNCHANGED <<variant, transports, client, endpoint, is_connected, is_logged_in>>
    /\ UNCHANGED graphs

\* `return await future` resumes
ResumeA ==
    /\ variant = "A"
    /\ \E i \in 1..Len(invs) :
         /\ NextToResume(i)
         /\ invs' = [invs EXCEPT ![i] = FinishA(@)]
    /\ UNCHANGED <<variant, transports, client, endpoint, is_connected, is_logged_in>>
    /\ UNCHANGED graphs

(***************************************************************************)
(* Actions of variant B.                                                   *)
(***************************************************************************)
\* get_client handles no exception, so one way of failing shows all there is
OutcomesB == {"ok", "timeout"}

GetClientActB ==
    /\ variant = "B"
    /\ Len(invs) < MaxInv
    /\ \E url \in Urls, c \in Creds, co \in OutcomesB, lo \in OutcomesB :
         LET r == GetClientB(Mgr, url, c[1], c[2], co, lo)
             inv == NewInv("ensure", "", None, url, c[1], c[2])
         IN /\ SetMgr(r.s)
            /\ invs' = Append(invs, EnsureOnly(inv, r))
    /\ UNCHANGED variant
    /\ UNCHANGED graphs

CallMethodActB ==
    /\ variant = "B"
    /\ Len(invs) < MaxInv
    /\ \E m \in Methods, url \in Urls, c \in CallCreds, co \in OutcomesB, lo \in OutcomesB :
         LET r == GetClientB(Mgr, url, c[1], c[2], co, lo)
             inv == NewInv("call", m, Payload, url, c[1], c[2])
         IN /\ SetMgr(r.s)
            /\ invs' = Append(invs, DispatchB(inv, r))
    /\ UNCHANGED variant
    /\ UNCHANGED graphs

\* the configuration of the tool invocations of B
ToolConfigB == <<"E1", PStr("u"), PStr("p")>>

\* `client_manager = MeteorClientManager()`: the module defines no such name
NameErrorB == [type |-> "NameError", arg |-> PStr("name 'MeteorClientManager' is not defined")]

\* except Exception as e: return f"Error calling Meteor method '{method_name}': {str(e)}"
ErrorTextB(method, e) ==
    PStr("Error calling Meteor method '" \o method \o "': " \o StrExc(e))

\* the parameter object of the call, or the text returned for invalid JSON
ParamsB(inv) ==
    IF inv.schema
    THEN IF JsonLoads(inv.params.v).ok
         THEN [ok |-> TRUE, val |-> JsonLoads(inv.params.v).val]
         ELSE [ok |-> FALSE,
               val |-> PStr("Error: Invalid JSON in query: " \o inv.params.v)]
    ELSE [ok |-> TRUE, val |-> WrapQuery(inv.params.v)]

\* create_tool's meteor_tool(query, config): after the parameters are built,
\* the lookup of MeteorClientManager raises and the outer except returns text
MeteorToolB(inv) ==
    IF ~ParamsB(inv).ok
    THEN [inv EXCEPT !.outcome = Returned(ParamsB(inv).val)]
    ELSE [inv EXCEPT !.outcome = Returned(ErrorTextB(inv.method, NameErrorB))]

MeteorToolActB ==
    /\ variant = "B"
    /\ Len(invs) < MaxInvF
    /\ \E m \in Methods, sch \in BOOLEAN, q \in Queries :
         LET inv == [NewInv("tool", m, PStr(q), ToolConfigB[1], ToolConfigB[2], ToolConfigB[3])
                        EXCEPT !.schema = sch]
         IN invs' = Append(invs, MeteorToolB(inv))
    /\ UNCHANGED <<variant, transports, client, endpoint, is_connected, is_logged_in>>
    /\ UNCHANGED graphs

\* the library fires the callback, which settles the future itself
CallbackFiresB ==
    /\ variant = "B"
    /\ \E i \in 1..Len(invs) : \E a \in NextCbArgs(invs[i]) :
         /\ invs[i].tid # 0
         /\ Fired < MaxCb
         /\ invs' = [invs EXCEPT ![i].cbs = Append(@, FiredCb(a)),
                                 ![i].errs = SettleErrors(@, invs[i].fut),
                                 ![i].fut = SetFuture(@, CallbackB(a[1], a[2]))]
    /\ UNCHANGED <<variant, transports, client, endpoint, is_connected, is_logged_in>>
    /\ UNCHANGED graphs

ResumeB ==
    /\ variant = "B"
    /\ \E i \in 1..Len(invs) :
         /\ NextToResume(i)
         /\ invs' = [invs EXCEPT ![i] = FinishCall(@)]
    /\ UNCHANGED <<variant, transports, client, endpoint, is_connected, is_logged_in>>
    /\ UNCHANGED graphs


(***************************************************************************)
(* Variant F: meteor_tools/factory.py, one transport per tool invocation.  *)
(***************************************************************************)
\* the configuration of the tool invocations: every invocation creates its
\* own transport, so one endpoint shows all there is
UrlsF == {"E1"}
CredsF == {<<None, None>>, <<PStr("u"), PStr("p")>>}

\* except Exception as e: return f"Error calling Meteor method '{method_name}': {str(e)}"
ErrorTextF(method, e) ==
    PStr("Error calling Meteor method '" \o method \o "': " \o StrExc(e))

\* Faulty variant: the query is never parsed.
ParamsF_Unparsed(inv) == [ok |-> TRUE, val |-> WrapQuery(inv.params.v)]

\* the parameter object of the call, or the text returned for invalid JSON
ParamsF(inv) ==
    IF inv.schema
    THEN IF JsonLoads(inv.params.v).ok
         THEN [ok |-> TRUE, val |-> JsonLoads(inv.params.v).val]
         ELSE [ok |-> FALSE,
               val |-> PStr("Error: Invalid JSON in query: " \o inv.params.v)]
    ELSE [ok |-> TRUE, val |-> WrapQuery(inv.params.v)]

NeedsLoginF(u, p) == Truthy(u) /\ Truthy(p)

\* meteor_tool(query, config) up to `await future`; trs are the transports
MeteorToolF(trs, inv, co, lo) ==
    LET t == Len(trs) + 1
        created == Append(trs, NewTransport(inv.url))
        opNew == Op("new", t, TRUE, PStr(inv.url), None)
        opLogin(ok) == Op("login", t, ok, inv.user, PasswordBytes(inv.pw))
        afterConn == <<opNew, Op("connect", t, TRUE, None, None)>>
        afterLogin == IF NeedsLoginF(inv.user, inv.pw)
                      THEN Append(afterConn, opLogin(TRUE)) ELSE afterConn
        connected == [created EXCEPT ![t] = TConnect(@)]
        loggedIn == IF NeedsLoginF(inv.user, inv.pw)
                    THEN [connected EXCEPT ![t] = TLogin(@, inv.user, PasswordBytes(inv.pw))]
                    ELSE connected
    IN CASE ~ParamsF(inv).ok ->
              [trs |-> trs, inv |-> [inv EXCEPT !.outcome = Returned(ParamsF(inv).val)]]
         [] ParamsF(inv).ok /\ co # "ok" ->
              [trs |-> created,
               inv |-> [inv EXCEPT !.ops = <<opNew, Op("connect", t, FALSE, None, None)>>,
                                   !.outcome = Returned(ErrorTextF(inv.method, TransportExc(co)))]]
         [] ParamsF(inv).ok /\ co = "ok" /\ NeedsLoginF(inv.user, inv.pw) /\ lo # "ok" ->
              [trs |-> connected,
               inv |-> [inv EXCEPT !.ops = Append(afterConn, opLogin(FALSE)),
                                   !.outcome = Returned(ErrorTextF(inv.method, TransportExc(lo)))]]
         [] OTHER ->
              [trs |-> loggedIn,
               inv |-> [inv EXCEPT !.ops = Append(afterLogin,
                                                  Op("call", t, TRUE, PStr(inv.method),
                                                     PList1(ParamsF(inv).val))),
                                   !.tid = t,
                                   !.status = "pending",
                                   !.fut = PendingFut]]

\* result = await future; return result; finally: client.disconnect();
\* an exception of the future is turned into text by the outer except
FinishF(inv) ==
    [inv EXCEPT !.status = "done",
                !.ops = Append(@, Op("disconnect", inv.tid, TRUE, None, None)),
                !.outcome = IF inv.fut.st = "exception"
                            THEN Returned(ErrorTextF(inv.method, inv.fut.exc))
                            ELSE Returned(inv.fut.val)]

MeteorToolActF ==
    /\ variant = "F"
    /\ Len(invs) < MaxInvF
    /\ \E m \in Methods, sch \in BOOLEAN, q \in Queries, url \in UrlsF, c \in CredsF,
          co \in Outcomes, lo \in Outcomes :
         LET inv == [NewInv("tool", m, PStr(q), url, c[1], c[2]) EXCEPT !.schema = sch]
             r == MeteorToolF(transports, inv, co, lo)
         IN /\ transports' = r.trs
            /\ invs' = Append(invs, r.inv)
    /\ UNCHANGED <<variant, client, endpoint, is_connected, is_logged_in>>
    /\ UNCHANGED graphs

CallbackFiresF ==
    /\ variant = "F"
    /\ \E i \in 1..Len(invs) : \E a \in NextCbArgs(invs[i]) :
         /\ invs[i].tid # 0
         /\ Fired < MaxCb
         /\ invs' = [invs EXCEPT ![i].cbs = Append(@, FiredCb(a)),
                                 ![i].errs = SettleErrors(@, invs[i].fut),
                                 ![i].fut = SetFuture(@, CallbackF(a[1], a[2]))]
    /\ UNCHANGED <<variant, transports, client, endpoint, is_connected, is_logged_in>>
    /\ UNCHANGED graphs

ResumeF ==
    /\ variant = "F"
    /\ \E i \in 1..Len(invs) :
         /\ NextToResume(i)
         /\ invs' = [invs EXCEPT ![i] = FinishF(@)]
         /\ transports' = [transports EXCEPT ![invs[i].tid] = TDisconnect(@)]
    /\ UNCHANGED <<variant, client, endpoint, is_connected, is_logged_in>>
    /\ UNCHANGED graphs

(***************************************************************************)
(* Variant C: construction.  MeteorClientConnection(meteor_prefix) of      *)
(* meteor_client_connection.py and Configuration() of configuration.py     *)
(* under an environment, which is the set of the variables that are set.   *)
(***************************************************************************)
EnvVars == {"URL", "USERNAME", "PASSWORD"}

\* os.environ.get(name): the value of a variable that is set, else None
EnvGet(env, name) == IF name \in env THEN PStr("env-" \o name) ELSE None

\* raise ValueError(f"{meteor_prefix}_METEOR_URL not set")
ConfigError(name) == [type |-> "ValueError", arg |-> PStr("P_METEOR_" \o name \o " not set")]

\* self.url, self.username, self.password: the lookups in the environment
\* are commented out, the values are the literals
FieldsA(env) == [URL |-> PStr(UrlA), USERNAME |-> UsernameA, PASSWORD |-> PasswordA]

\* __init__(self, meteor_prefix): the three tests, then the client
ConstructA(trs, env) ==
    LET f == FieldsA(env)
        t == Len(trs) + 1
    IN CASE f.URL = None -> [trs |-> trs, ops |-> <<>>, exc |-> ConfigError("URL")]
         [] f.URL # None /\ f.USERNAME = None ->
              [trs |-> trs, ops |-> <<>>, exc |-> ConfigError("USERNAME")]
         [] f.URL # None /\ f.USERNAME # None /\ f.PASSWORD = None ->
              [trs |-> trs, ops |-> <<>>, exc |-> ConfigError("PASSWORD")]
         [] OTHER ->
              [trs |-> Append(trs, NewTransport(UrlA)),
               ops |-> <<Op("new", t, TRUE, PStr(UrlA), None)>>,
               exc |-> NoExc]

\* os.environ.get(name) or default
OrDefault(x, default) == IF Truthy(x) THEN x ELSE default

\* Configuration(): meteor_url, meteor_user_name, meteor_user_password
ConfigurationOf(env) ==
    [URL |-> OrDefault(EnvGet(env, "URL"), PStr("ws://127.0.0.1:3000/websocket")),
     USERNAME |-> OrDefault(EnvGet(env, "USERNAME"), PStr("fnord")),
     PASSWORD |-> OrDefault(EnvGet(env, "PASSWORD"), PStr("fnord"))]

ConstructActA ==
    /\ variant = "C"
    /\ Len(invs) < MaxInv
    /\ \E env \in SUBSET EnvVars :
         LET r == ConstructA(transports, env)
             f == FieldsA(env)
             inv == [NewInv("construct", "", None, f.URL.v, f.USERNAME, f.PASSWORD)
                        EXCEPT !.env = env]
         IN /\ transports' = r.trs
            /\ client' = IF r.exc = NoExc THEN Len(r.trs) ELSE client
            /\ endpoint' = IF r.exc = NoExc THEN UrlA ELSE endpoint
            /\ invs' = Append(invs, EnsureOnly(inv, r))
    /\ is_connected' = FALSE
    /\ is_logged_in' = FALSE
    /\ UNCHANGED variant
    /\ UNCHANGED graphs

ConfigurationActC ==
    /\ variant = "C"
    /\ Len(invs) < MaxInv
    /\ \E env \in SUBSET EnvVars :
         LET f == ConfigurationOf(env)
             inv == [NewInv("configure", "", None, f.URL.v, f.USERNAME, f.PASSWORD)
                        EXCEPT !.env = env]
         IN invs' = Append(invs, [inv EXCEPT !.outcome = Returned(None)])
    /\ UNCHANGED <<variant, transports, client, endpoint, is_connected, is_logged_in>>
    /\ UNCHANGED graphs


(***************************************************************************)
(* Variant G: react_agent/graph.py, the ReAct agent graph                  *)
(***************************************************************************)
\* A message of State.messages: its class, the number of its tool calls, and
\* whether its content holds "founder" (in any case) and "Harrison Chase".
HumanMessage(conclusive) == [type |-> "human", tool_calls |-> 0, conclusive |-> conclusive]
AIMessage(n) == [type |-> "ai", tool_calls |-> n, conclusive |-> FALSE]
ToolMessage(conclusive) == [type |-> "tool", tool_calls |-> 0, conclusive |-> conclusive]

\* the fields of the dataclass Configuration
ConfigurationFields ==
    {"reasoner_prompt", "final_response_prompt", "model", "max_search_results",
     "meteor_url", "meteor_user_name", "meteor_user_password", "meteor_prefix"}

\* configuration.<name>
AttributeError(name) ==
    [type |-> "AttributeError",
     arg |-> PStr("'Configuration' object has no attribute '" \o name \o "'")]
GetAttr(name) == IF name \in ConfigurationFields THEN NoExc ELSE AttributeError(name)

\* what a node gives back: the exception it raised, or the messages to add
NodeRaised(e) == [exc |-> e, messages |-> <<>>]
NodeReturned(msgs) == [exc |-> NoExc, messages |-> msgs]

\* reasoner(state, config), the model answering with response
reasoner(is_last_step, response) ==
    IF GetAttr("system_prompt") # NoExc THEN NodeRaised(GetAttr("system_prompt"))
    ELSE IF is_last_step /\ response.tool_calls > 0 THEN NodeReturned(<<AIMessage(0)>>)
    ELSE NodeReturned(<<response>>)

\* final_response(state, config), the model (bound to no tool) answering
final_response(response) ==
    IF GetAttr("system_prompt") # NoExc THEN NodeRaised(GetAttr("system_prompt"))
    ELSE NodeReturned(<<response>>)

\* ToolNode(TOOLS): one ToolMessage for each tool call of the last message
ToolNode(messages, conclusive) ==
    NodeReturned([k \in 1..messages[Len(messages)].tool_calls |-> ToolMessage(conclusive)])

ValueErrorG == [type |-> "ValueError", arg |-> PStr("Expected AIMessage in output edges")]

\* route_model_output(state): the node to run next, "" with the exception raised
route_model_output(messages) ==
    LET last_message == messages[Len(messages)]
    IN IF last_message.type # "ai" THEN [exc |-> ValueErrorG, node |-> ""]
       ELSE IF last_message.tool_calls = 0 THEN [exc |-> NoExc, node |-> "__end__"]
       ELSE [exc |-> NoExc, node |-> "tools"]

\* if tool_calls_count >= 3
ToolCallLimit == 3

AIToolCalls(messages) ==
    {k \in 1..Len(messages) : messages[k].type = "ai" /\ messages[k].tool_calls > 0}

\* route_after_tools(state)
route_after_tools(messages) ==
    LET last_message == messages[Len(messages)]
    IN IF Cardinality(AIToolCalls(messages)) >= ToolCallLimit
       THEN [exc |-> NoExc, node |-> "final_response"]
       ELSE IF last_message.type = "human" /\ last_message.conclusive
       THEN [exc |-> NoExc, node |-> "final_response"]
       ELSE [exc |-> NoExc, node |-> "reasoner"]

\* create_react_agent(): the edge that leaves a node
EdgeFrom(node, messages) ==
    CASE node = "__start__" -> [exc |-> NoExc, node |-> "reasoner"]
      [] node = "reasoner" -> route_model_output(messages)
      [] node = "tools" -> route_after_tools(messages)
      [] node = "final_response" -> [exc |-> NoExc, node |-> "__end__"]

\* no run of the graph yet
NoRun ==
    [input |-> <<>>, messages |-> <<>>, node |-> "", step |-> 0, recursion_limit |-> 0,
     visited |-> <<>>, exc |-> NoExc]

\* the messages a run is started with, and its limit of steps
InputMessages ==
    {<<HumanMessage(FALSE)>>,
     <<HumanMessage(TRUE)>>,
     <<HumanMessage(FALSE), AIMessage(1), ToolMessage(FALSE), AIMessage(0), HumanMessage(FALSE)>>}
RecursionLimits == {1, 2, 25}
\* what the model answers: a message with no, one or two tool calls
Responses == {AIMessage(0), AIMessage(1), AIMessage(2)}

\* graph.ainvoke({"messages": input}, {"recursion_limit": limit})
InvokeActG ==
    /\ variant = "G"
    /\ agent.node = ""
    /\ \E input \in InputMessages, limit \in RecursionLimits :
         agent' = [NoRun EXCEPT !.input = input,
                                !.messages = input,
                                !.recursion_limit = limit,
                                !.node = EdgeFrom("__start__", input).node]
    /\ UNCHANGED <<variant, transports, client, endpoint, is_connected, is_logged_in, invs,
                   review>>

IsNode(node) == node \in {"reasoner", "tools", "final_response"}

\* the node's function, run on the state
RunNode(node, is_last_step, messages, response, conclusive) ==
    CASE node = "reasoner" -> reasoner(is_last_step, response)
      [] node = "tools" -> ToolNode(messages, conclusive)
      [] node = "final_response" -> final_response(response)

GraphRecursionError == [type |-> "GraphRecursionError", arg |-> PStr("Recursion limit reached")]

\* one step of the run: the next node runs, its messages are added to the
\* state, and the edge that leaves it names the node after it
StepActG ==
    /\ variant = "G"
    /\ IsNode(agent.node)
    /\ \E response \in Responses, conclusive \in BOOLEAN :
         LET is_last_step == agent.step + 1 = agent.recursion_limit
             seen == Append(agent.visited, [node |-> agent.node, is_last_step |-> is_last_step])
             r == RunNode(agent.node, is_last_step, agent.messages, response, conclusive)
             msgs == agent.messages \o r.messages
             e == EdgeFrom(agent.node, msgs)
         IN agent' =
              IF agent.step >= agent.recursion_limit
              THEN [agent EXCEPT !.node = "", !.exc = GraphRecursionError]
              ELSE IF r.exc # NoExc
              THEN [agent EXCEPT !.node = "", !.exc = r.exc, !.step = @ + 1, !.visited = seen]
              ELSE [agent EXCEPT !.messages = msgs, !.node = e.node, !.exc = e.exc,
                                 !.step = @ + 1, !.visited = seen]
    /\ UNCHANGED <<variant, transports, client, endpoint, is_connected, is_logged_in, invs,
                   review>>


(***************************************************************************)
(* Variant R: review_summary_agent/graph.py, the review-summary graph      *)
(***************************************************************************)
\* the numbers of the three filters on df['ubi_bwges'] and of the sample
BadUnder == 4
MidFrom == 4
MidUpTo == 8
GoodOver == 8
target_sample_size == 100

\* Faulty variant: the middle filter leaves out its upper end.
mid_filter_Exclusive(score) == score >= MidFrom /\ score < MidUpTo

bad_filter(score) == score < BadUnder
mid_filter(score) == score >= MidFrom /\ score <= MidUpTo
good_filter(score) == score > GoodOver

\* filters = [bad_filter, mid_filter, good_filter]
Filter(k, score) ==
    CASE k = 1 -> bad_filter(score)
      [] k = 2 -> mid_filter(score)
      [] k = 3 -> good_filter(score)

\* The frame of the reviews is kept as the number of reviews of each score:
\* the scores around the ends of the filters, each on no review, on one, on
\* as many as a sample takes, or on one more.
ScoreValues == {BadUnder - 1, MidFrom, MidUpTo, GoodOver + 1}
Counts == {0, 1, target_sample_size, target_sample_size + 1}
ReviewInputs == [ScoreValues -> Counts]

RECURSIVE RowsOf(_, _)
RowsOf(frame, scores) ==
    IF scores = {} THEN 0
    ELSE LET s == CHOOSE x \in scores : TRUE
         IN frame[s] + RowsOf(frame, scores \ {s})
\* len(df)
LenOf(frame) == RowsOf(frame, DOMAIN frame)

\* df[filter]
Select(frame, k) == [s \in DOMAIN frame |-> IF Filter(k, s) THEN frame[s] ELSE 0]

Min(a, b) == IF a <= b THEN a ELSE b

\* get_sample_for_filter(filter): the rows drawn by reviews.sample are kept
\* by their number; percentage is kept as the two numbers it divides
get_sample_for_filter(df, k) ==
    LET reviews == Select(df, k)
        sample_size == Min(LenOf(reviews), target_sample_size)
    IN [reviews |-> reviews, sample_size |-> sample_size,
        percentage |-> <<LenOf(reviews), LenOf(df)>>]

\* continue_to_sample_summaries(state): one Send for each filter
continue_to_sample_summaries(df) == [k \in 1..3 |-> get_sample_for_filter(df, k)]

KeyErrorR == [type |-> "KeyError", arg |-> PStr("ubi_headl")]

\* no run of the graph yet
NoReview ==
    [status |-> "start", df |-> [s \in ScoreValues |-> 0], sends |-> <<>>,
     pending |-> {}, sample_summaries |-> <<>>, exc |-> NoExc]

\* prepare_data(state): a frame without rows has no column 'ubi_headl'
PrepareDataActR ==
    /\ variant = "R"
    /\ review.status = "start"
    /\ \E reviews \in ReviewInputs :
         review' = IF LenOf(reviews) = 0
                   THEN [review EXCEPT !.status = "failed", !.exc = KeyErrorR]
                   ELSE [review EXCEPT !.status = "prepared", !.df = reviews]
    /\ UNCHANGED <<variant, transports, client, endpoint, is_connected, is_logged_in, invs,
                   agent>>

\* the edges that leave prepare_data
ContinueToSampleSummariesActR ==
    /\ variant = "R"
    /\ review.status = "prepared"
    /\ review' = [review EXCEPT !.status = "sent",
                                !.sends = continue_to_sample_summaries(review.df),
                                !.pending = {1, 2, 3}]
    /\ UNCHANGED <<variant, transports, client, endpoint, is_connected, is_logged_in, invs,
                   agent>>

\* summarize_sample(state) on one of the samples sent
SummarizeSampleActR ==
    /\ variant = "R"
    /\ review.status = "sent"
    /\ \E k \in review.pending :
         review' = [review EXCEPT
                      !.pending = @ \ {k},
                      !.sample_summaries =
                          IF review.sends[k].sample_size = 0 THEN @ ELSE Append(@, k)]
    /\ UNCHANGED <<variant, transports, client, endpoint, is_connected, is_logged_in, invs,
                   agent>>

(***************************************************************************)
(* The specification.                                                      *)
(***************************************************************************)
\* A: __init__ creates the client; B: the class attributes; F: no manager;
\* C: nothing is constructed yet; G, R: the graph is compiled, no run yet.
Init ==
    /\ variant \in {"A", "B", "F", "C", "G", "R"}
    /\ transports = IF variant = "A" THEN <<NewTransport(UrlA)>> ELSE <<>>
    /\ client = IF variant = "A" THEN 1 ELSE 0
    /\ endpoint = IF variant = "A" THEN UrlA ELSE ""
    /\ is_connected = FALSE
    /\ is_logged_in = FALSE
    /\ invs = <<>>
    /\ agent = NoRun
    /\ review = NoReview

Next ==
    \/ EnsureConnectionActA
    \/ CallActA
    \/ ToolFunctionActA
    \/ CallbackFiresA
    \/ LoopRunsA
    \/ ResumeA
    \/ GetClientActB
    \/ CallMethodActB
    \/ MeteorToolActB
    \/ CallbackFiresB
    \/ ResumeB
    \/ MeteorToolActF
    \/ CallbackFiresF
    \/ ResumeF
    \/ ConstructActA
    \/ ConfigurationActC
    \/ InvokeActG
    \/ StepActG
    \/ PrepareDataActR
    \/ ContinueToSampleSummariesActR
    \/ SummarizeSampleActR

Spec == Init /\ [][Next]_vars

\* What the scheduling guarantees.  The callback of call() hands the settle to
\* the loop with call_soon_threadsafe, which wakes the loop: the handle runs
\* and the awaiting call resumes.  The callbacks of call_method() and of the
\* factory's meteor_tool settle the future themselves, in the thread of the
\* library: the wake-up is queued with call_soon, which does not wake a loop
\* that sleeps in its selector, so nothing guarantees that the call resumes.
LiveSpec == Spec /\ WF_vars(LoopRunsA) /\ WF_vars(ResumeA)


(***************************************************************************)
(* Vocabulary of the properties.                                           *)
(***************************************************************************)
IsMgr == variant \in {"A", "B"}
CredsPresent(inv) == Truthy(inv.user) /\ Truthy(inv.pw)
HasOp(inv, name, ok) ==
    \E k \in 1..Len(inv.ops) : inv.ops[k].op = name /\ inv.ops[k].ok = ok
Invokes(inv, name) == HasOp(inv, name, TRUE) \/ HasOp(inv, name, FALSE)
OpNames(ops) == [k \in 1..Len(ops) |-> ops[k].op]
IsOneOf(o, names) == o.op \in names
TransportOps(ops) == SelectSeq(ops, LAMBDA o : IsOneOf(o, {"connect", "login", "call"}))
EnsureFailed(inv) == HasOp(inv, "connect", FALSE) \/ HasOp(inv, "login", FALSE)
Dispatched(inv) == inv.tid # 0
\* this step starts an invocation
Starts == Len(invs') = Len(invs) + 1
Started1 == invs'[Len(invs')]

\* the operations of the first n invocations, in the order they were invoked
RECURSIVE OpsUpTo(_)
OpsUpTo(n) == IF n = 0 THEN <<>> ELSE OpsUpTo(n - 1) \o invs[n].ops
AllOps == OpsUpTo(Len(invs))

(***************************************************************************)
(* C1: the transport's call operation is invoked only when the manager's   *)
(* current transport is connected and, when username and credential are    *)
(* both non-empty, authenticated.                                          *)
(***************************************************************************)
C1_CallOnlyWhenReady ==
    [][(Starts /\ IsMgr /\ Invokes(Started1, "call")) =>
          /\ Started1.tid = client'
          /\ is_connected'
          /\ transports'[client'].connected
          /\ CredsPresent(Started1) =>
                (is_logged_in' /\ transports'[client'].authed)]_vars

\* a call is dispatched with credentials by the invocation after a failed one
C1_Witness ==
    /\ IsMgr
    /\ Len(invs) = 2
    /\ EnsureFailed(invs[1])
    /\ invs[2].kind = "call" /\ Dispatched(invs[2]) /\ CredsPresent(invs[2])

(***************************************************************************)
(* C2: in every reachable state of a manager, is_logged_in implies         *)
(* is_connected.                                                           *)
(***************************************************************************)
C2_AuthImpliesConnected == is_logged_in => is_connected

\* both flags set, after an invocation in which connect succeeded and login failed
C2_Witness ==
    /\ Len(invs) = 2
    /\ HasOp(invs[1], "login", FALSE)
    /\ is_logged_in /\ is_connected

(***************************************************************************)
(* C3 as stated: over call() invocations only, connect is invoked at most  *)
(* once per configured endpoint.                                           *)
(***************************************************************************)
ConnectsTo(url) ==
    Cardinality({k \in 1..Len(AllOps) :
                   AllOps[k].op = "connect" /\ transports[AllOps[k].tid].url = url})

SentArgs(inv) == IF variant = "A" THEN inv.params ELSE PList1(inv.params)

C4_FirstCall ==
    (IsMgr /\ Len(invs) >= 1 /\ invs[1].kind = "call" /\ CredsPresent(invs[1])) =>
        LET inv == invs[1]
            tops == TransportOps(inv.ops)
        IN /\ Dispatched(inv) =>
                /\ OpNames(tops) = <<"connect", "login", "call">>
                /\ tops[2].a1 = inv.user
                /\ tops[2].a2 = [t |-> "bytes", v |-> inv.pw.v]
                /\ tops[3].a1 = PStr(inv.method)
                /\ tops[3].a2 = SentArgs(inv)
                /\ \A k \in 1..3 : tops[k].tid = inv.tid /\ tops[k].ok
           /\ ~Dispatched(inv) => ~Invokes(inv, "call")
           /\ (inv.status = "done" /\ inv.cbs # <<>> /\ ~Truthy(inv.cbs[1].error)) =>
                inv.outcome = Returned(inv.cbs[1].result)

\* the first call has returned the result the callback was fired with
C4_Witness ==
    /\ IsMgr
    /\ Len(invs) >= 1
    /\ invs[1].kind = "call" /\ CredsPresent(invs[1])
    /\ invs[1].status = "done"
    /\ Len(invs[1].cbs) = 1
    /\ invs[1].cbs[1].error = None /\ invs[1].cbs[1].result = Payload
    /\ invs[1].outcome = Returned(Payload)

(***************************************************************************)
(* C5: an invocation without a username or without a credential never      *)
(* invokes login and fails only when connect fails or the remote reports   *)
(* an error; while no invocation has supplied both, is_logged_in is false. *)
(***************************************************************************)
C5_NoLoginWithoutCredentials ==
    /\ \A i \in 1..Len(invs) :
          ~CredsPresent(invs[i]) =>
              /\ ~Invokes(invs[i], "login")
              /\ (invs[i].outcome.kind = "raise") =>
                    (HasOp(invs[i], "connect", FALSE) \/ invs[i].fut.st = "exception")
              /\ (Dispatched(invs[i]) /\ variant = "F") => ~transports[invs[i].tid].authed
    /\ (\A i \in 1..Len(invs) : ~CredsPresent(invs[i])) =>
          /\ ~is_logged_in
          /\ \A t \in 1..Len(transports) : ~transports[t].authed

\* two invocations without credentials, the second a dispatched call
C5_Witness ==
    /\ variant = "B"
    /\ Len(invs) = 2
    /\ ~CredsPresent(invs[1]) /\ ~CredsPresent(invs[2])
    /\ invs[1].user # invs[2].user
    /\ Dispatched(invs[2])
    /\ is_connected /\ ~is_logged_in


(***************************************************************************)
(* C6: a call() during which connect or login fails raises that failure    *)
(* and does not invoke the transport's call: no future is created and no   *)
(* callback is registered.                                                 *)
(***************************************************************************)
FailureOf(inv) ==
    LET bad == SelectSeq(inv.ops, LAMBDA o : ~o.ok) IN bad[1]

C6_FailedEnsureSkipsCall ==
    \A i \in 1..Len(invs) :
        (IsMgr /\ invs[i].kind = "call" /\ EnsureFailed(invs[i])) =>
            /\ invs[i].status = "done"
            /\ invs[i].outcome.kind = "raise"
            /\ invs[i].outcome.exc # NoExc
            /\ \E o \in Outcomes \ {"ok"} :
                  \/ invs[i].outcome.exc = TransportExc(o)
                  \/ /\ invs[i].outcome.exc.type = "ConnectionError"
                     /\ invs[i].outcome.exc.arg.v =
                            "Failed to " \o FailureOf(invs[i]).op
                            \o " to Meteor server at " \o invs[i].url \o ": "
                            \o StrExc(TransportExc(o))
            /\ ~Invokes(invs[i], "call")
            /\ ~Dispatched(invs[i])
            /\ invs[i].fut = NoFut
            /\ invs[i].cbs = <<>>

\* a call whose login failed after its connect succeeded
C6_Witness ==
    \E i \in 1..Len(invs) :
        /\ IsMgr
        /\ invs[i].kind = "call"
        /\ HasOp(invs[i], "connect", TRUE)
        /\ HasOp(invs[i], "login", FALSE)
        /\ invs[i].outcome.kind = "raise"

(***************************************************************************)
(* C7: after an invocation whose connect failed both flags are false, and  *)
(* after one whose login failed is_logged_in is false and is_connected     *)
(* true; a flag is true only if the operation returned on the current      *)
(* transport.                                                              *)
(***************************************************************************)
C7_FlagsFollowOutcome ==
    IsMgr =>
        /\ is_connected => (client # 0 /\ transports[client].connected)
        /\ is_logged_in => (client # 0 /\ transports[client].authed)
        /\ Len(invs) >= 1 =>
              LET last == invs[Len(invs)]
              IN /\ HasOp(last, "connect", FALSE) => (~is_connected /\ ~is_logged_in)
                 /\ HasOp(last, "login", FALSE) => (is_connected /\ ~is_logged_in)

\* a failed login after a successful connect, then a failed connect on a new transport
C7_Witness ==
    /\ variant = "B"
    /\ Len(invs) = 2
    /\ HasOp(invs[1], "login", FALSE)
    /\ HasOp(invs[2], "connect", FALSE)
    /\ ~is_connected

(***************************************************************************)
(* C8 as stated: every failure of connect or login reaches the caller of   *)
(* ensure_connection / call as a ConnectionError.                          *)
(***************************************************************************)
C8_Original_AlwaysConnectionError ==
    \A i \in 1..Len(invs) :
        (IsMgr /\ EnsureFailed(invs[i])) =>
            /\ invs[i].outcome.kind = "raise"
            /\ invs[i].outcome.exc.type = "ConnectionError"

(***************************************************************************)
(* C9: ensure_connection invoked when the manager is connected and         *)
(* authenticated, for the endpoint of its transport, invokes no transport  *)
(* operation and leaves the transport and both flags as they are.          *)
(***************************************************************************)
C9_EnsureIdempotent ==
    [][(Starts /\ IsMgr /\ is_connected /\ is_logged_in /\ Started1.url = endpoint) =>
          /\ client' = client
          /\ transports' = transports
          /\ is_connected' /\ is_logged_in'
          /\ endpoint' = endpoint
          /\ ~Invokes(Started1, "new")
          /\ ~Invokes(Started1, "connect")
          /\ ~Invokes(Started1, "login")
          /\ Started1.outcome.kind # "raise"]_vars

\* a second invocation found the manager connected and authenticated
C9_Witness ==
    /\ IsMgr
    /\ Len(invs) = 2
    /\ HasOp(invs[1], "login", TRUE)
    /\ invs[2].url = invs[1].url
    /\ invs[2].kind = "ensure"
    /\ invs[2].ops = <<>>
    /\ is_connected /\ is_logged_in

(***************************************************************************)
(* C10: in every variant, a callback fired with a truthy error settles the *)
(* future with a failure whose text is the string form of that error, and  *)
(* a callback fired with no error settles it with exactly the result.      *)
(***************************************************************************)
C10_BridgeSettles ==
    \A i \in 1..Len(invs) :
        (invs[i].cbs # <<>> /\ invs[i].fut.st # "pending") =>
            LET cb == invs[i].cbs[1]
            IN IF cb.error.t # "none" /\ cb.error.v \notin {"", "0", "{}"}
               THEN /\ invs[i].fut.st = "exception"
                    /\ invs[i].fut.exc.type = "Exception"
                    /\ StrExc(invs[i].fut.exc) = cb.error.v
               ELSE /\ invs[i].fut.st = "result"
                    /\ invs[i].fut.val = cb.result

\* variant A has run the settle of an error that is not a string
C10_Witness ==
    \E i \in 1..Len(invs) :
        /\ variant = "A"
        /\ invs[i].cbs # <<>>
        /\ invs[i].cbs[1].error = PInt("500")
        /\ invs[i].fut.st = "exception"

(***************************************************************************)
(* C11: once the future of a call is settled, a later invocation of the    *)
(* same callback is ignored: the settled future stays as the first         *)
(* invocation left it, and the later invocation raises nothing.            *)
(***************************************************************************)
\* what the callback of the running variant asks for
CallbackOf(cb) ==
    CASE variant = "A" -> CallbackA(cb.error, cb.result)
      [] variant = "B" -> CallbackB(cb.error, cb.result)
      [] OTHER -> CallbackF(cb.error, cb.result)

\* the callback of invocation i was invoked again and that settle has run
SettledAgain(i) ==
    /\ invs[i].cbs # <<>>
    /\ Tail(invs[i].cbs) # <<>>
    /\ invs[i].sched = <<>>

\* the future is as the first invocation of the callback left it
KeepsFirstSettle(i) == invs[i].fut = SetFuture(PendingFut, CallbackOf(invs[i].cbs[1]))

C11_Original_LateSettleIgnored ==
    \A i \in 1..Len(invs) :
        SettledAgain(i) => (KeepsFirstSettle(i) /\ invs[i].errs = <<>>)

(***************************************************************************)
(* C12: a call is never sent again: every call()/call_method() that got    *)
(* past ensure_connection/get_client invokes the transport's call exactly  *)
(* once, also when the callback reports a remote error, and then the call  *)
(* fails with an exception that carries the reported error.                *)
(***************************************************************************)
CallOps(ops) == SelectSeq(ops, LAMBDA o : IsOneOf(o, {"call"}))
IsCall(inv) == inv.kind = "call"
RemoteError(inv) == inv.cbs # <<>> /\ Truthy(inv.cbs[1].error)

C12_CallSentOnce ==
    IsMgr =>
        \A i \in 1..Len(invs) :
            IsCall(invs[i]) =>
                /\ Len(CallOps(invs[i].ops)) = (IF EnsureFailed(invs[i]) THEN 0 ELSE 1)
                /\ (RemoteError(invs[i]) /\ invs[i].status = "done") =>
                       /\ invs[i].outcome.kind = "raise"
                       /\ invs[i].outcome.exc.type = "Exception"
                       /\ StrExc(invs[i].outcome.exc) = PyStr(invs[i].cbs[1].error)

\* a call of B has ended with the remote error 500 after one call operation
C12_Witness ==
    \E i \in 1..Len(invs) :
        /\ variant = "B"
        /\ IsCall(invs[i])
        /\ invs[i].cbs # <<>>
        /\ invs[i].cbs[1].error = PInt("500")
        /\ invs[i].status = "done"
        /\ invs[i].outcome.kind = "raise"
        /\ Len(CallOps(invs[i].ops)) = 1

(***************************************************************************)
(* C13: a tool that has a schema and is handed text that is no JSON        *)
(* returns a string containing "Invalid JSON", raises nothing and invokes  *)
(* no operation of a transport.                                            *)
(***************************************************************************)
IsTool(inv) == inv.kind = "tool"
BadJson(inv) == ~JsonLoads(inv.params.v).ok

\* what stands before and after "Invalid JSON" in the texts of the tools
TextBefore == {"", "Error: "}
TextAfter == {": " \o JsonErrorText(q) : q \in Queries} \cup {" in query: " \o q : q \in Queries}
Contains(text, part) == \E b \in TextBefore, a \in TextAfter : text = b \o part \o a

C13_InvalidJsonIsText ==
    \A i \in 1..Len(invs) :
        (IsTool(invs[i]) /\ invs[i].schema /\ BadJson(invs[i])) =>
            /\ invs[i].status = "done"
            /\ invs[i].outcome.kind = "return"
            /\ invs[i].outcome.val.t = "str"
            /\ Contains(invs[i].outcome.val.v, "Invalid JSON")
            /\ invs[i].ops = <<>>
            /\ invs[i].tid = 0

\* the factory's tool, with a schema, was handed "not json"
C13_Witness ==
    \E i \in 1..Len(invs) :
        /\ variant = "F"
        /\ IsTool(invs[i])
        /\ invs[i].schema
        /\ invs[i].params = PStr("not json")
        /\ invs[i].outcome = Returned(PStr("Error: Invalid JSON in query: not json"))

(***************************************************************************)
(* C14: a tool never raises to its caller: whatever fails inside (the      *)
(* parse, connect, login, the remote method), the invocation ends by       *)
(* returning a text.                                                       *)
(***************************************************************************)
\* the invocation ended without a result of the remote method
InternalFailure(inv) == inv.status = "done" /\ (inv.tid = 0 \/ inv.fut.st = "exception")

C14_ToolNeverRaises ==
    \A i \in 1..Len(invs) :
        IsTool(invs[i]) =>
            /\ invs[i].outcome.kind # "raise"
            /\ invs[i].status = "done" => invs[i].outcome.kind = "return"
            /\ InternalFailure(invs[i]) => invs[i].outcome.val.t = "str"

\* a tool of A whose login failed, and one whose remote method failed
C14_Witness ==
    /\ variant = "A"
    /\ \E i \in 1..Len(invs) :
          IsTool(invs[i]) /\ HasOp(invs[i], "login", FALSE) /\ invs[i].outcome.kind = "return"
    /\ \E i \in 1..Len(invs) :
          /\ IsTool(invs[i])
          /\ invs[i].status = "done"
          /\ invs[i].fut.st = "exception"
          /\ invs[i].outcome = Returned(PStr("Error calling Echo: 500"))

(***************************************************************************)
(* C15: when nothing fails (connect and login return, the callback fires   *)
(* with no error and result r) every tool returns r itself for a           *)
(* well-formed payload.                                                    *)
(***************************************************************************)
\* the payload is one the tool accepts (A parses every payload)
WellFormed(inv) == (variant = "A" \/ inv.schema) => ~BadJson(inv)

C15_Original_ResultVerbatim ==
    \A i \in 1..Len(invs) :
        (/\ IsTool(invs[i])
         /\ invs[i].status = "done"
         /\ WellFormed(invs[i])
         /\ ~EnsureFailed(invs[i])
         /\ ~RemoteError(invs[i])) =>
            /\ invs[i].cbs # <<>>
            /\ invs[i].outcome = Returned(invs[i].cbs[1].result)

(***************************************************************************)
(* C16: a tool that has no schema does not parse: it sends the object      *)
(* {query: s} as the only argument, whatever the text s is.                *)
(***************************************************************************)
\* the arguments of the call operation of a dispatched invocation
ArgsOfCall(inv) == CallOps(inv.ops)[1].a2

C16_Original_NoSchemaWraps ==
    \A i \in 1..Len(invs) :
        (IsTool(invs[i]) /\ ~invs[i].schema /\ ~EnsureFailed(invs[i])) =>
            /\ Dispatched(invs[i])
            /\ ArgsOfCall(invs[i]) = PList1(WrapQuery(invs[i].params.v))

(***************************************************************************)
(* C17: constructing a manager while one of P_METEOR_URL,                  *)
(* P_METEOR_USERNAME, P_METEOR_PASSWORD is not set raises a configuration  *)
(* error, and no transport is created.                                     *)
(***************************************************************************)
C17_Original_MissingConfigRaises ==
    \A i \in 1..Len(invs) :
        (invs[i].kind = "construct" /\ invs[i].env # EnvVars) =>
            /\ invs[i].outcome.kind = "raise"
            /\ invs[i].outcome.exc.type = "ValueError"
            /\ invs[i].ops = <<>>

(***************************************************************************)
(* C18: at every point, also across calls that change the endpoint, a      *)
(* manager has at most one transport that was connected and has not been   *)
(* disconnected.                                                           *)
(***************************************************************************)
LiveTransports == {t \in 1..Len(transports) : transports[t].connected /\ ~transports[t].closed}

C18_Original_OneLiveTransport == IsMgr => Cardinality(LiveTransports) <= 1

(***************************************************************************)
(* C19: the flags of a manager go from true to false only in the step that *)
(* replaces the transport by a newly created one, and no transport of a    *)
(* manager goes from connected or authenticated back.                      *)
(***************************************************************************)
FlagDrops == (is_connected /\ ~is_connected') \/ (is_logged_in /\ ~is_logged_in')
ReplacesTransport == client' # client /\ client' = Len(transports) + 1 /\ Len(transports') = client'

C19_FlagsMonotonic ==
    [][IsMgr =>
          /\ FlagDrops => ReplacesTransport
          /\ \A t \in 1..Len(transports) :
                /\ transports[t].connected => transports'[t].connected
                /\ transports[t].authed => transports'[t].authed]_vars

\* the manager of B is logged in on a second transport after it was on a first
C19_Witness ==
    /\ variant = "B"
    /\ is_logged_in
    /\ \E t \in 1..Len(transports) : t # client /\ transports[t].authed

(***************************************************************************)
(* C20: get_client / ensure_connection replaces the transport exactly when *)
(* there is none or the requested endpoint is not the current one.  The    *)
(* new transport is bound to the requested endpoint and the flags start    *)
(* from false: they are true after the step only if this invocation        *)
(* connected, and logged in on, the new transport, which it does before a  *)
(* call is dispatched.  With the endpoint unchanged no transport is        *)
(* created and the operations go to the current one.                       *)
(***************************************************************************)
UsesManager(inv) == inv.kind \in {"ensure", "call"} \/ (inv.kind = "tool" /\ inv.ops # <<>>)
OpOn(inv, name, ok, t) ==
    \E k \in 1..Len(inv.ops) :
        inv.ops[k].op = name /\ inv.ops[k].ok = ok /\ inv.ops[k].tid = t

C20_ReplacedOnEndpointChange ==
    [][(IsMgr /\ Starts /\ UsesManager(Started1)) =>
          /\ (client' # client) <=> (client = 0 \/ Started1.url # endpoint)
          /\ \A k \in 1..Len(Started1.ops) : Started1.ops[k].tid = client'
          /\ (client' # client) =>
                /\ client' = Len(transports) + 1
                /\ Len(transports') = client'
                /\ transports'[client'].url = Started1.url
                /\ endpoint' = Started1.url
                /\ is_connected' <=> OpOn(Started1, "connect", TRUE, client')
                /\ is_logged_in' <=> OpOn(Started1, "login", TRUE, client')
                /\ Dispatched(Started1) =>
                      /\ OpOn(Started1, "connect", TRUE, client')
                      /\ CredsPresent(Started1) => OpOn(Started1, "login", TRUE, client')
          /\ (client' = client) =>
                /\ Len(transports') = Len(transports)
                /\ endpoint' = endpoint
                /\ ~Invokes(Started1, "new")]_vars

\* a call of B to another endpoint was dispatched on a new transport
C20_Witness ==
    \E i \in 1..Len(invs), j \in 1..Len(invs) :
        /\ variant = "B"
        /\ i < j
        /\ Dispatched(invs[i]) /\ Dispatched(invs[j])
        /\ invs[i].url # invs[j].url
        /\ invs[i].tid # invs[j].tid
        /\ CredsPresent(invs[j])
        /\ OpOn(invs[j], "login", TRUE, invs[j].tid)

(***************************************************************************)
(* C21: with several calls pending on one manager, in whatever order the   *)
(* library invokes their callbacks, a call ends with the outcome that was  *)
(* handed to the callback it registered itself, and the calls end in the   *)
(* order in which their callbacks arrived, not in the order of issue.      *)
(***************************************************************************)
\* this step ends invocation i
Ends(i) == invs[i].status = "pending" /\ invs'[i].status = "done"
\* what `await future` gives when the future holds what callback cb asked for
OutcomeOf(cb) == AwaitFuture(SetFuture(PendingFut, CallbackOf(cb)))
\* the callback of the invocation has arrived and the invocation has not ended
Waiting(inv) == inv.status = "pending" /\ inv.cbs # <<>>

C21_OwnOutcomeInArrivalOrder ==
    [][IsMgr =>
          \A i \in 1..Len(invs) :
              Ends(i) =>
                  /\ invs[i].cbs # <<>>
                  /\ IsCall(invs[i]) => invs'[i].outcome = OutcomeOf(invs[i].cbs[1])
                  /\ \A j \in 1..Len(invs) :
                        (j # i /\ Waiting(invs[j])) =>
                            invs[i].cbs[1].at < invs[j].cbs[1].at]_vars

\* two calls were pending together; the one issued later got its callback
\* first, with another outcome, and has ended while the other still waits
C21_Witness ==
    \E i \in 1..Len(invs), j \in 1..Len(invs) :
        /\ IsMgr
        /\ i < j
        /\ IsCall(invs[i]) /\ IsCall(invs[j])
        /\ Waiting(invs[i])
        /\ invs[j].status = "done" /\ invs[j].cbs # <<>>
        /\ invs[j].cbs[1].at < invs[i].cbs[1].at
        /\ invs[j].outcome = OutcomeOf(invs[j].cbs[1])
        /\ OutcomeOf(invs[i].cbs[1]) # invs[j].outcome

(***************************************************************************)
(* C22: there is no timeout and no cancellation: a call whose callback the *)
(* library never invokes neither returns nor fails, whatever else happens. *)
(***************************************************************************)
NeverCalledBack(inv) == Dispatched(inv) /\ inv.cbs = <<>>

C22_NoTimeout ==
    \A i \in 1..Len(invs) :
        NeverCalledBack(invs[i]) =>
            /\ invs[i].status = "pending"
            /\ invs[i].outcome = NoOutcome
            /\ invs[i].fut = PendingFut

\* a call still waits for its callback after a call issued later has ended
C22_Witness ==
    \E i \in 1..Len(invs), j \in 1..Len(invs) :
        /\ i < j
        /\ NeverCalledBack(invs[i])
        /\ invs[i].status = "pending"
        /\ Dispatched(invs[j])
        /\ invs[j].status = "done"

(***************************************************************************)
(* C23: in every variant, once the library has invoked the callback of a   *)
(* pending call, with an error or with a result, and does not invoke it    *)
(* again, the awaiting call eventually resumes.                            *)
(***************************************************************************)
CalledBack(i) == Len(invs) >= i /\ Waiting(invs[i])
ResumedOrCalledAgain(i) ==
    /\ Len(invs) >= i
    /\ \/ invs[i].status = "done"
       \/ invs[i].cbs # <<>> /\ Tail(invs[i].cbs) # <<>>

C23_Original_EventuallyResumes ==
    \A i \in 1..MaxInv : CalledBack(i) ~> ResumedOrCalledAgain(i)

(***************************************************************************)
(* C24: in the factory's tool, every transport on which connect() was      *)
(* invoked is disconnected exactly once before the invocation returns, on  *)
(* every path.  Stated for the transports on which connect() returned.     *)
(***************************************************************************)
DisconnectOps(ops) == SelectSeq(ops, LAMBDA o : IsOneOf(o, {"disconnect"}))

C24_Original_DisconnectedOnce ==
    \A i \in 1..Len(invs) :
        (/\ variant = "F"
         /\ invs[i].status = "done"
         /\ HasOp(invs[i], "connect", TRUE)) =>
            Len(DisconnectOps(invs[i].ops)) = 1

(***************************************************************************)
(* C25: in the shared manager of utilities/meteor_tools.py every           *)
(* dispatched call that supplied a username and a password is issued on a  *)
(* transport that was logged in with that username and that password.      *)
(***************************************************************************)
LoggedInAs(tr, u, p) == tr.authed /\ tr.user = u /\ tr.pwd = PasswordBytes(p)

C25_Original_OwnCredentials ==
    \A i \in 1..Len(invs) :
        (/\ variant = "B"
         /\ IsCall(invs[i])
         /\ Dispatched(invs[i])
         /\ CredsPresent(invs[i])) =>
            LoggedInAs(transports[invs[i].tid], invs[i].user, invs[i].pw)

(***************************************************************************)
(* C26: every run of the agent graph that starts from input without        *)
(* tool-calling AI messages comes to the end of the graph: the tools node  *)
(* runs at most three times, final_response is the last node of its run    *)
(* and leads to the end, and a run that has stopped has reached the end.   *)
(***************************************************************************)
Invoked == agent.recursion_limit > 0
Runs(node) == {k \in 1..Len(agent.visited) : agent.visited[k].node = node}
Stopped == Invoked /\ ~IsNode(agent.node)

LastRun == agent.visited[Len(agent.visited)]
LastMessage == agent.messages[Len(agent.messages)]
AfterReasoner == agent.visited # <<>> /\ LastRun.node = "reasoner"

C27_Original_ToolsIffToolCalls ==
    (variant = "G" /\ AfterReasoner) =>
        /\ LastMessage.type = "ai"
        /\ (agent.node = "tools") <=> (LastMessage.tool_calls > 0)
        /\ (agent.node # "tools") => (agent.node = "__end__")
        /\ LastRun.is_last_step => (LastMessage.tool_calls = 0)

(***************************************************************************)
(* C28: the three filters part the reviews: the reviews of one score are   *)
(* all in one of the three selections and in no other, the sizes of the    *)
(* selections add up to the number of reviews, and the sample of each      *)
(* selection has min(size of the selection, 100) rows.                     *)
(***************************************************************************)
Sent == variant = "R" /\ review.sends # <<>>
SelectionsWith(s) == {k \in 1..Len(review.sends) : review.sends[k].reviews[s] > 0}
SizeOf(k) == LenOf(review.sends[k].reviews)

C28_FiltersPartition ==
    Sent =>
        /\ Len(review.sends) = 3
        /\ \A s \in ScoreValues :
              review.df[s] > 0 =>
                  /\ Cardinality(SelectionsWith(s)) = 1
                  /\ \A k \in SelectionsWith(s) : review.sends[k].reviews[s] = review.df[s]
        /\ SizeOf(1) + SizeOf(2) + SizeOf(3) = LenOf(review.df)
        /\ \A k \in 1..3 :
              review.sends[k].sample_size = Min(SizeOf(k), target_sample_size)

\* reviews at both ends of the middle filter; one selection larger than a
\* sample, one smaller, none empty
C28_Witness ==
    /\ Sent
    /\ review.df[MidFrom] > 0 /\ review.df[MidUpTo] > 0
    /\ \A k \in 1..3 : SizeOf(k) > 0
    /\ \E k \in 1..3 : SizeOf(k) > target_sample_size /\ review.sends[k].sample_size = target_sample_size
    /\ \E k \in 1..3 : SizeOf(k) < target_sample_size /\ review.sends[k].sample_size = SizeOf(k)

====
